---------------------------- MODULE Spec2Model ----------------------------
(***************************************************************************)
(* Chat delivery core of pure-social: the friendship gate and its cache,   *)
(* lazy chat creation, message persistence, the delivered/read status      *)
(* transitions and the pushes sent through the connection manager.         *)
(*                                                                         *)
(* The relational store is modelled at READ COMMITTED: every database      *)
(* session (one per HTTP request, one per WebSocket connection) has its    *)
(* own transaction whose flushed rows are invisible to the others until    *)
(* it commits.  The friendship table is a persistent store shared with the *)
(* users service; at start it holds rows its schema admits (primary key    *)
(* (user_id, friend_id)), and the users-service handlers change it.        *)
(***************************************************************************)
EXTENDS Integers, Sequences, FiniteSets, TLC

\* ------------------------------------------------------------------ bounds
Users == 1..3
\* users that open WebSocket connections
WsUsers == {1, 2}
\* users that call the HTTP endpoints
HttpUsers == {1, 2}
\* total number of Message rows ever inserted
MaxMsgs == 2
\* a timestamp column holding None
NoTime == 0
\* datetime.now(timezone.utc) assigned to a column: a value later than the one it
\* replaces (a column counts its assignments; None is NoTime)
Now(previous) == previous + 1

Sessions == {<<"ws", u>> : u \in WsUsers} \cup {<<"http", u>> : u \in HttpUsers}
DirPairs == {p \in Users \X Users : p[1] # p[2]}

Min(a, b) == IF a < b THEN a ELSE b
Max(a, b) == IF a < b THEN b ELSE a

\* ------------------------------------------------------------------ state
VARIABLES
    friendship,        \* friendship table: directed pair -> status, "none" = no row
    friendship_cache,  \* services.friendship_cache: keys present (value ACCEPTED)
    chats,             \* committed Chat rows
    messages,          \* committed Message rows
    nextChatId,        \* chats.id sequence
    nextMsgId,         \* messages.id sequence
    presence,          \* the redis keys user_ws:{u}: user, value and ttl
    connected,         \* users with a websocket in the router's active_connections
    subscribed,        \* users whose forwarding task is subscribed to ws:{u}
    device,            \* per user: the connection whose websocket and task the
                       \* router's manager holds under the user's id, 0 = none
    sockets,           \* per connection: the read loop, the websocket, the
                       \* forwarding task with its pending frames, the frames
                       \* the task has written
    published,         \* per user: the publishes on ws:{u} so far
    pushes,            \* the frames the service has sent
    clock,             \* the wall clock read for created_at
    pc,                \* per session: position inside the running handler
    op,                \* per session: the running (or last) call and its locals
    tx                 \* per session: rows flushed and not yet committed

vars == <<friendship, friendship_cache, chats, messages, nextChatId, nextMsgId,
          presence, connected, subscribed, device, sockets, published,
          pushes, clock, pc, op, tx>>

dbVars == <<chats, messages, nextChatId, nextMsgId>>
connVars == <<presence, connected, subscribed, device>>
busVars == <<sockets, published>>

\* the connections one user can have open at a time (devices), and all of them
Devices == {1, 2}
Conns == Users \X Devices

\* ------------------------------------------------------------ enumerations
SENT == "sent"
DELIVERED == "delivered"
READ == "read"
MessageStatus == {SENT, DELIVERED, READ}

PENDING == "pending"
ACCEPTED == "accepted"
REJECTED == "rejected"
BLOCKED == "blocked"
FriendshipStatus == {PENDING, ACCEPTED, REJECTED, BLOCKED}

\* the order SENT < DELIVERED < READ of the status state machine
Rank(s) == CASE s = SENT -> 1 [] s = DELIVERED -> 2 [] s = READ -> 3

\* a transaction: the Chat and Message rows the session inserted and the Message
\* rows it updated, flushed and not committed
EmptyTx == [chats |-> {}, msgs |-> {}, upd |-> {}]

\* schemas.MessageType: the members and their values
MessageType == {"TEXT", "IMAGE", "VIDEO"}
TypeValue(t) == CASE t = "TEXT" -> "text" [] t = "IMAGE" -> "image" [] t = "VIDEO" -> "video"
\* MessageType(value): the member with this value (the validation of the type
\* field of a response)
MessageTypeOf(v) == CHOOSE t \in MessageType : TypeValue(t) = v

\* a session that runs no call: the object send_message builds (msg), the list
\* get_messages returns (page), the last call of send_personal as <<user_id,
\* value returned>> (sent; <<>> before the first call), the code with which
\* the server closed the websocket (closed; 0 when it did not)
NoMsg == [id |-> 0, chat_id |-> 0, sender_id |-> 0, content |-> "", type |-> "TEXT",
          reply_to_id |-> <<>>, status |-> SENT, created_at |-> NoTime, delivered_at |-> NoTime,
          read_at |-> NoTime]
NoOp == [kind |-> "none", user |-> 0, peer |-> 0, chat |-> 0, ids |-> {},
         wrote |-> "none", msg |-> NoMsg, page |-> <<>>, sent |-> <<>>,
         closed |-> 0]

\* ---------------------------------------------------------------- helpers
\* what session s sees of the tables: the committed rows overlaid with its own
\* flushed rows
VisibleChats(s) == chats \cup tx[s].chats
VisibleMessages(s) ==
    {m \in messages : \A u \in tx[s].upd : u.id # m.id} \cup tx[s].upd \cup tx[s].msgs

\* rows of the friendship table between a and b, in either direction (the
\* users service refuses a request, a block and a delete of oneself, so no row
\* links a user to itself)
RowsBetween(a, b) ==
    {p \in {<<a, b>>, <<b, a>>} \cap DirPairs : friendship[p] # "none"}

\* the pair's link is accepted: an ACCEPTED row exists between the two users
Linked(a, b) == \E p \in RowsBetween(a, b) : friendship[p] = ACCEPTED

Key(a, b) == <<Min(a, b), Max(a, b)>>

\* ------------------------------------------------------- friendship gate
\* services.get_friendship_status: "ok" when it returns, "403" for its
\* HTTPException, "500" when scalar_one_or_none meets more than one row
\* (MultipleResultsFound), which no caller catches as an authorization error
get_friendship_status(a, b) ==
    IF Key(a, b) \in friendship_cache THEN "ok"
    ELSE IF Cardinality(RowsBetween(a, b)) > 1 THEN "500"
    ELSE IF RowsBetween(a, b) = {} THEN "403"
    ELSE IF \E p \in RowsBetween(a, b) : friendship[p] # ACCEPTED THEN "403"
    ELSE "ok"

\* the cache after a call: the key is stored on the path that returns from the
\* query, and nothing ever removes it
CacheAfter(a, b) ==
    IF get_friendship_status(a, b) = "ok"
    THEN friendship_cache \cup {Key(a, b)}
    ELSE friendship_cache

\* ------------------------------------------------------------ chat lookup
\* the rows get_or_create_chat's select returns to session s for the pair
ChatRowsFor(s, a, b) ==
    {c \in VisibleChats(s) : c.user1_id = Min(a, b) /\ c.user2_id = Max(a, b)}

\* a variant of get_or_create_chat that inserts the pair as it was given
NewChatAsGiven(a, b) ==
    [id |-> nextChatId, user1_id |-> a, user2_id |-> b]

\* the row get_or_create_chat inserts when its select found none
NewChat(a, b) ==
    [id |-> nextChatId, user1_id |-> Min(a, b), user2_id |-> Max(a, b)]

\* the Message object send_message.operation builds from the request body:
\* type holds data.type.value, created_at the clock; the id comes with the INSERT
NewMessage(chat_id, sender, data) ==
    [id |-> 0, chat_id |-> chat_id, sender_id |-> sender, content |-> data.content,
     type |-> TypeValue(data.type), reply_to_id |-> data.reply_to_id,
     status |-> SENT, created_at |-> clock,
     delivered_at |-> NoTime, read_at |-> NoTime]

\* ChatMessageResponse.model_validate(row): the columns of the row, type parsed
\* into a MessageType member
model_validate(m) == [m EXCEPT !.type = MessageTypeOf(m.type)]

\* a variant of the select of require_chat_by_id without its user filter
ChatsById(s, c, u) == {ch \in VisibleChats(s) : ch.id = c}

\* services.require_chat_by_id: the chat with this id of which u is a member
MemberChats(s, c, u) ==
    {ch \in VisibleChats(s) : ch.id = c /\ (ch.user1_id = u \/ ch.user2_id = u)}

OtherUser(ch, u) == IF ch.user1_id = u THEN ch.user2_id ELSE ch.user1_id

\* --------------------------------------------------------------- pushes
\* ChatMessageResponse.model_dump(): the fields as python values, a timestamp
\* column that is set as a datetime object
model_dump(msg) ==
    [f \in DOMAIN msg |->
        IF f \in {"created_at", "delivered_at", "read_at"}
        THEN IF msg[f] = NoTime THEN <<"None", NoTime>> ELSE <<"datetime", msg[f]>>
        ELSE <<"plain", msg[f]>>]

\* broadcast_data of send_message
MessagePayload(msg) ==
    [type |-> "message", message_id |-> msg.id, status |-> msg.status,
     data |-> model_dump(msg)]

\* the status_update dictionaries of send_message and mark_as_read
StatusUpdate(id, status) ==
    [type |-> "status_update", message_id |-> id, status |-> status, data |-> <<>>]

\* json.dumps(message) returns: the encoder raises TypeError on a datetime
Serializable(message) ==
    \A f \in DOMAIN message.data : message.data[f][1] # "datetime"

\* active_connections of the manager of services.py: connect runs on the
\* router's instance only, so this table stays empty
ServiceConnections == {}

Frame(to, message, via) ==
    [to |-> to, type |-> message.type, message_id |-> message.message_id,
     status |-> message.status, via |-> via]

\* a variant of send_personal whose except branch returns True
send_personal_true(log, message, user_id, ok) ==
    IF ~Serializable(message) \/ ~ok
    THEN [log |-> log, returned |-> TRUE]
    ELSE IF user_id \in ServiceConnections
    THEN [log |-> log \cup {Frame(user_id, message, "socket")}, returned |-> TRUE]
    ELSE [log |-> log \cup {Frame(user_id, message, "bus")}, returned |-> TRUE]

\* ConnectionManager.send_personal on the manager of services.py, with the
\* frames sent so far: the frame goes to the local socket or is published on
\* the channel ws:{user}, and the call returns True; an exception of json.dumps,
\* of the socket or of redis (ok = FALSE) is logged and the call returns False
send_personal(log, message, user_id, ok) ==
    IF ~Serializable(message) \/ ~ok
    THEN [log |-> log, returned |-> FALSE]
    ELSE IF user_id \in ServiceConnections
    THEN [log |-> log \cup {Frame(user_id, message, "socket")}, returned |-> TRUE]
    ELSE [log |-> log \cup {Frame(user_id, message, "bus")}, returned |-> TRUE]

\* what becomes of a frame published on ws:{user}: a forwarding task subscribed
\* at that moment gets it for the socket it serves (_subscribe_to_user); redis
\* drops it when the user's connection has not subscribed yet ("lost") and when
\* the user has no connection ("none")
Forwarded(to) ==
    IF \E d \in Devices : sockets[<<to, d>>].task = "subscribed" THEN "socket"
    ELSE IF to \in connected THEN "lost"
    ELSE "none"

\* the messages a call of send_personal publishes, in order: the one message
\* when the call returns True and the user has no socket on this manager
Sent(message, user_id, ok) ==
    IF /\ send_personal(pushes, message, user_id, ok).returned
       /\ user_id \notin ServiceConnections
    THEN <<message>> ELSE <<>>

\* redis_client.publish on ws:{to}, once for each message of seq: redis hands
\* the payload to the tasks subscribed at that moment, in the order of the
\* publishes, and to nobody else
Publish(to, seq) ==
    LET payloads == [i \in 1..Len(seq) |->
                       [n |-> published[to] + i, type |-> seq[i].type,
                        message_id |-> seq[i].message_id, status |-> seq[i].status]]
    IN  /\ published' = [published EXCEPT ![to] = @ + Len(seq)]
        /\ sockets' = [c \in Conns |->
                         IF c[1] = to /\ sockets[c].task = "subscribed"
                         THEN [sockets[c] EXCEPT !.queue = @ \o payloads]
                         ELSE sockets[c]]

\* websocket.send_text(json.dumps(broadcast_data)) on the caller's own socket
\* (the echo of send_message): the frame is written, or json.dumps raises
Echo(log, message, to) ==
    IF Serializable(message)
    THEN [log |-> log \cup {Frame(to, message, "socket")}, raised |-> FALSE]
    ELSE [log |-> log, raised |-> TRUE]

\* ConnectionManager.is_online: the redis flag of the user
is_online(u) == \E e \in presence : e.user = u /\ e.value = "connected"

\* ------------------------------------------------------------ transactions
\* another session holds the row lock of message id (a flushed UPDATE)
LockedByOther(s, id) == \E t \in Sessions \ {s} : \E u \in tx[t].upd : u.id = id

\* AsyncSession.commit of session s
CommitTx(s) ==
    /\ chats' = VisibleChats(s)
    /\ messages' = VisibleMessages(s)
    /\ tx' = [tx EXCEPT ![s] = EmptyTx]

IsWs(s) == s[1] = "ws"
Caller(s) == s[2]
\* the handler of s can take a frame or a request
Ready(s) == pc[s] = "idle" /\ (IsWs(s) => Caller(s) \in connected)
\* where a handler ends on an exception: the websocket loop leaves through its
\* except/finally, get_db rolls an HTTP request back
Raised(code) == CASE code = "403" -> "e403" [] code = "404" -> "e404" [] OTHER -> "e500"
Errors == {"e403", "e404", "e500"}

\* ------------------------------------------------------------ send_message
\* send_message(data, a, r) up to the construction of the Message: the gate and
\* the select and insert of get_or_create_chat, then operation() builds the
\* object with created_at = now.  Nothing is committed, and the message has no
\* id yet.
Build(s, a, r, data, call) ==
    LET gate == get_friendship_status(a, r)
        found == ChatRowsFor(s, a, r)
        chat == IF found = {} THEN NewChat(a, r) ELSE CHOOSE c \in found : TRUE
    IN  /\ friendship_cache' = CacheAfter(a, r)
        /\ IF gate # "ok"
           THEN /\ op' = [op EXCEPT ![s] = call]
                /\ pc' = [pc EXCEPT ![s] = Raised(gate)]
                /\ UNCHANGED <<dbVars, clock, tx>>
           ELSE IF Cardinality(found) > 1
           THEN \* scalar_one_or_none: MultipleResultsFound
                /\ op' = [op EXCEPT ![s] = call]
                /\ pc' = [pc EXCEPT ![s] = Raised("500")]
                /\ UNCHANGED <<dbVars, clock, tx>>
           ELSE /\ nextChatId' = IF found = {} THEN nextChatId + 1 ELSE nextChatId
                /\ clock' = clock + 1
                /\ tx' = [tx EXCEPT ![s].chats = IF found = {} THEN @ \cup {chat} ELSE @]
                /\ op' = [op EXCEPT ![s] =
                             [call EXCEPT !.chat = chat.id,
                                          !.msg = NewMessage(chat.id, a, data)]]
                /\ pc' = [pc EXCEPT ![s] = "built"]
                /\ UNCHANGED <<chats, messages, nextMsgId>>

\* a websocket frame {"action": "send", "receiver_id": r, "data": data}
SendTo(s, r, data) ==
    /\ Ready(s) /\ IsWs(s)
    /\ clock <= MaxMsgs
    /\ Build(s, Caller(s), r, data,
             [NoOp EXCEPT !.kind = "send", !.user = Caller(s), !.peer = r])
    /\ UNCHANGED <<friendship, connVars, busVars, pushes>>

\* POST /chat/messages/{c} with body data, or a websocket frame {"action":
\* "send", "chat_id": c, "data": data}: get_receiver_id (require_chat_by_id:
\* membership, then the gate), then send_message
SendIn(s, c, data) ==
    /\ Ready(s)
    /\ clock <= MaxMsgs
    /\ LET u == Caller(s)
           found == MemberChats(s, c, u)
           ch == CHOOSE x \in found : TRUE
           gate == get_friendship_status(ch.user1_id, ch.user2_id)
           call == [NoOp EXCEPT !.kind = "send", !.user = u]
       IN  IF found = {}
           THEN /\ op' = [op EXCEPT ![s] = call]
                /\ pc' = [pc EXCEPT ![s] = Raised("404")]
                /\ UNCHANGED <<friendship_cache, dbVars, clock, tx>>
           ELSE IF gate # "ok"
           THEN /\ op' = [op EXCEPT ![s] = [call EXCEPT !.peer = OtherUser(ch, u)]]
                /\ pc' = [pc EXCEPT ![s] = Raised(gate)]
                /\ UNCHANGED <<friendship_cache, dbVars, clock, tx>>
           ELSE Build(s, u, OtherUser(ch, u), data,
                      [call EXCEPT !.peer = OtherUser(ch, u)])
    /\ UNCHANGED <<friendship, connVars, busVars, pushes>>

\* the FOREIGN KEY of messages.reply_to_id, checked when the INSERT statement
\* ends: the referenced row is one the session sees, or the inserted row itself
References(s, row) ==
    \/ row.reply_to_id = <<>>
    \/ \E m \in VisibleMessages(s) \cup {row} : m.id = row.reply_to_id[1]

\* the referenced row was inserted by a transaction that is still open: the
\* check waits for it
ReferenceLocked(s, row) ==
    /\ row.reply_to_id # <<>>
    /\ \E t \in Sessions \ {s} : \E m \in tx[t].msgs : m.id = row.reply_to_id[1]

\* a variant of the failure path of execute_db_operation without its rollback
SendFlushKeeps(s, ok) ==
    /\ pc[s] = "built"
    /\ ~ReferenceLocked(s, op[s].msg)
    /\ IF ok /\ References(s, [op[s].msg EXCEPT !.id = nextMsgId])
       THEN LET row == [op[s].msg EXCEPT !.id = nextMsgId]
            IN  /\ nextMsgId' = nextMsgId + 1
                /\ tx' = [tx EXCEPT ![s].msgs = @ \cup {row}]
                /\ op' = [op EXCEPT ![s].ids = {nextMsgId},
                                    ![s].msg = model_validate(row)]
                /\ pc' = [pc EXCEPT ![s] = "flushed"]
       ELSE /\ pc' = [pc EXCEPT ![s] = Raised("500")]
            /\ UNCHANGED <<nextMsgId, op, tx>>
    /\ UNCHANGED <<friendship, friendship_cache, chats, messages, nextChatId,
                   connVars, busVars, pushes, clock>>

\* db.add(message); db.flush(); db.refresh(message) of operation(): the INSERT
\* gives the row its id and operation() returns the validated response.  When
\* the INSERT fails (ok = FALSE, or reply_to_id names no message) execute_db_operation rolls the session back and
\* send_message raises HTTPException(500).
SendFlush(s, ok) ==
    /\ pc[s] = "built"
    /\ ~ReferenceLocked(s, op[s].msg)
    /\ IF ok /\ References(s, [op[s].msg EXCEPT !.id = nextMsgId])
       THEN LET row == [op[s].msg EXCEPT !.id = nextMsgId]
            IN  /\ nextMsgId' = nextMsgId + 1
                /\ tx' = [tx EXCEPT ![s].msgs = @ \cup {row}]
                /\ op' = [op EXCEPT ![s].ids = {nextMsgId},
                                    ![s].msg = model_validate(row)]
                /\ pc' = [pc EXCEPT ![s] = "flushed"]
       ELSE /\ tx' = [tx EXCEPT ![s] = EmptyTx]
            /\ pc' = [pc EXCEPT ![s] = Raised("500")]
            /\ UNCHANGED <<nextMsgId, op>>
    /\ UNCHANGED <<friendship, friendship_cache, chats, messages, nextChatId,
                   connVars, busVars, pushes, clock>>

\* a variant of execute_db_operation that flushes and leaves the commit out
SendCommitFlushOnly(s) ==
    /\ pc[s] = "flushed"
    /\ pc' = [pc EXCEPT ![s] = "committed"]
    /\ UNCHANGED <<friendship, friendship_cache, dbVars, connVars, busVars, pushes, clock,
                   op, tx>>

\* execute_db_operation: flush, commit
SendCommit(s) ==
    /\ pc[s] = "flushed"
    /\ CommitTx(s)
    /\ pc' = [pc EXCEPT ![s] = "committed"]
    /\ UNCHANGED <<friendship, friendship_cache, nextChatId, nextMsgId,
                   connVars, busVars, pushes, clock, op>>

\* the id of the message the running send_message of s created
MsgOf(s) == CHOOSE i \in op[s].ids : TRUE

\* manager.send_personal(broadcast_data, receiver_id), then on the websocket
\* path the echo on the caller's socket.  broadcast_data holds msg.model_dump(),
\* whose created_at is a datetime: send_personal logs the TypeError of
\* json.dumps, the echo raises it out of send_message.
SendPush(s) ==
    /\ pc[s] = "committed"
    /\ LET message == MessagePayload(op[s].msg)
           sent == send_personal(pushes, message, op[s].peer, TRUE)
           echo == IF IsWs(s) THEN Echo(sent.log, message, op[s].user)
                   ELSE [log |-> sent.log, raised |-> FALSE]
       IN  /\ pushes' = echo.log
           /\ op' = [op EXCEPT ![s].wrote =
                        IF sent.returned THEN Forwarded(op[s].peer) ELSE "none",
                               ![s].sent = <<op[s].peer, sent.returned>>]
           /\ pc' = [pc EXCEPT ![s] =
                        IF echo.raised THEN Raised("TypeError") ELSE "pushed"]
           /\ Publish(op[s].peer, Sent(message, op[s].peer, TRUE))
    /\ UNCHANGED <<friendship, friendship_cache, dbVars, connVars, clock, tx>>

\* a variant of the probe that answers False when redis cannot be reached
probe_offline(u, ok) ==
    IF ~ok THEN "False" ELSE IF is_online(u) THEN "True" ELSE "False"

\* await manager.is_online(u) as its caller sees it: is_online has no try
\* around redis_client.get, so an error of redis (ok = FALSE) leaves it as an
\* exception; otherwise the comparison of the flag is returned
probe(u, ok) ==
    IF ~ok THEN "raise" ELSE IF is_online(u) THEN "True" ELSE "False"

\* if await manager.is_online(receiver_id); an exception of the probe is
\* raised out of send_message
SendProbe(s, ok) ==
    /\ pc[s] = "pushed"
    /\ pc' = [pc EXCEPT ![s] =
                 CASE probe(op[s].peer, ok) = "raise" -> Raised("500")
                   [] probe(op[s].peer, ok) = "True" -> "upgrade"
                   [] OTHER -> "done"]
    /\ UNCHANGED <<friendship, friendship_cache, dbVars, connVars, busVars, pushes, clock,
                   op, tx>>

\* the row update_status writes: status and delivered_at are assigned whatever the
\* row holds by then
Delivered(m) == [m EXCEPT !.status = DELIVERED, !.delivered_at = Now(@)]

\* update_status under execute_db_operation: the UPDATE waits for the row lock,
\* then the session commits.  When the store fails (ok = FALSE)
\* execute_db_operation rolls back and raises, the except of send_message logs
\* it and send_message returns msg.
SendUpgrade(s, ok) ==
    /\ pc[s] = "upgrade"
    /\ IF ok
       THEN /\ ~LockedByOther(s, MsgOf(s))
            /\ LET old == {m \in VisibleMessages(s) : m.id = MsgOf(s)}
                   new == {Delivered(m) : m \in old}
               IN  /\ messages' = (VisibleMessages(s) \ old) \cup new
                   /\ chats' = VisibleChats(s)
                   /\ tx' = [tx EXCEPT ![s] = EmptyTx]
            /\ pc' = [pc EXCEPT ![s] = "notify"]
       ELSE /\ tx' = [tx EXCEPT ![s] = EmptyTx]
            /\ pc' = [pc EXCEPT ![s] = "done"]
            /\ UNCHANGED <<chats, messages>>
    /\ UNCHANGED <<friendship, friendship_cache, nextChatId, nextMsgId, connVars, busVars,
                   pushes, clock, op>>

\* manager.send_personal(status_update, sender_id), whose result is not looked
\* at; return msg
SendNotify(s, ok) ==
    /\ pc[s] = "notify"
    /\ LET sent == send_personal(pushes, StatusUpdate(MsgOf(s), DELIVERED),
                                 op[s].user, ok)
       IN  /\ pushes' = sent.log
           /\ op' = [op EXCEPT ![s].wrote =
                        IF sent.returned THEN Forwarded(op[s].user) ELSE "none",
                               ![s].sent = <<op[s].user, sent.returned>>]
    /\ Publish(op[s].user, Sent(StatusUpdate(MsgOf(s), DELIVERED), op[s].user, ok))
    /\ pc' = [pc EXCEPT ![s] = "done"]
    /\ UNCHANGED <<friendship, friendship_cache, dbVars, connVars, clock, tx>>

\* ------------------------------------------------------------ mark_as_read
\* a variant of the select of mark_as_read without its sender filter
UnreadAnySender(s, c, sender) ==
    {m \in VisibleMessages(s) : m.chat_id = c /\ m.status # READ}

\* the rows mark_as_read selects: messages of the chat written by the other
\* participant whose status is not READ
Unread(s, c, sender) ==
    {m \in VisibleMessages(s) :
        m.chat_id = c /\ m.sender_id = sender /\ m.status # READ}

\* msg.status = READ; msg.read_at = now
MarkedRead(m) == [m EXCEPT !.status = READ, !.read_at = Now(@)]

\* mark_as_read up to its select: require_chat_by_id (membership, then the
\* gate) and the query for the rows to mark; a select takes no row lock.  From
\* POST /chat/{c}/read or from a websocket frame {"action": "read", "chat_id": c}.
MarkSelect(s, c) ==
    /\ Ready(s)
    /\ LET u == Caller(s)
           found == MemberChats(s, c, u)
           ch == CHOOSE x \in found : TRUE
           sender == OtherUser(ch, u)
           gate == get_friendship_status(ch.user1_id, ch.user2_id)
           rows == Unread(s, c, sender)
           call == [NoOp EXCEPT !.kind = "read", !.user = u, !.chat = c]
       IN  IF found = {}
           THEN /\ op' = [op EXCEPT ![s] = call]
                /\ pc' = [pc EXCEPT ![s] = Raised("404")]
                /\ UNCHANGED friendship_cache
           ELSE IF gate # "ok"
           THEN /\ op' = [op EXCEPT ![s] = [call EXCEPT !.peer = sender]]
                /\ pc' = [pc EXCEPT ![s] = Raised(gate)]
                /\ UNCHANGED friendship_cache
           ELSE /\ friendship_cache' = CacheAfter(ch.user1_id, ch.user2_id)
                /\ op' = [op EXCEPT ![s] =
                             [call EXCEPT !.peer = sender, !.ids = {m.id : m \in rows}]]
                \* if not messages: return
                /\ pc' = [pc EXCEPT ![s] = IF rows = {} THEN "done" ELSE "selected"]
    /\ UNCHANGED <<friendship, dbVars, connVars, busVars, pushes, clock, tx>>

\* the assignments of mark_as_read and db.flush(): one UPDATE per selected row,
\* by primary key, each waiting for the row lock; status and read_at are
\* assigned whatever the row holds by then
MarkFlush(s) ==
    /\ pc[s] = "selected"
    /\ \A i \in op[s].ids : ~LockedByOther(s, i)
    /\ LET rows == {m \in VisibleMessages(s) : m.id \in op[s].ids}
       IN  tx' = [tx EXCEPT ![s].upd =
                     {x \in @ : x.id \notin op[s].ids} \cup {MarkedRead(m) : m \in rows}]
    /\ pc' = [pc EXCEPT ![s] = "marked"]
    /\ UNCHANGED <<friendship, friendship_cache, dbVars, connVars, busVars, pushes, clock,
                   op>>

\* the status_update frames of the ids, one per message, lowest id first
RECURSIVE ReadFrames(_, _, _, _)
ReadFrames(log, to, ids, ok) ==
    IF ids = {} THEN log
    ELSE LET i == CHOOSE x \in ids : \A y \in ids : x <= y
         IN  ReadFrames(send_personal(log, StatusUpdate(i, READ), to, ok).log,
                        to, ids \ {i}, ok)

\* the messages that loop publishes, one send_personal after the other
RECURSIVE ReadUpdates(_, _, _)
ReadUpdates(to, ids, ok) ==
    IF ids = {} THEN <<>>
    ELSE LET i == CHOOSE x \in ids : \A y \in ids : x <= y
         IN  Sent(StatusUpdate(i, READ), to, ok) \o ReadUpdates(to, ids \ {i}, ok)

\* the loop of mark_as_read that notifies the sender; the results of
\* send_personal are not looked at
MarkNotify(s, ok) ==
    /\ pc[s] = "marked"
    /\ pushes' = ReadFrames(pushes, op[s].peer, op[s].ids, ok)
    /\ LET last == CHOOSE i \in op[s].ids : \A j \in op[s].ids : j <= i
       IN  op' = [op EXCEPT ![s].wrote = IF ok THEN Forwarded(op[s].peer) ELSE "none",
                            ![s].sent = <<op[s].peer,
                                          send_personal(pushes, StatusUpdate(last, READ),
                                                        op[s].peer, ok).returned>>]
    /\ Publish(op[s].peer, ReadUpdates(op[s].peer, op[s].ids, ok))
    /\ pc' = [pc EXCEPT ![s] = "done"]
    /\ UNCHANGED <<friendship, friendship_cache, dbVars, connVars, clock, tx>>

\* ------------------------------------------------------------ get_messages
\* ORDER BY created_at DESC over a set of rows
RECURSIVE Descending(_)
Descending(rows) ==
    IF rows = {} THEN <<>>
    ELSE LET m == CHOOSE x \in rows : \A y \in rows : x.created_at >= y.created_at
         IN  <<m>> \o Descending(rows \ {m})

\* LIMIT n
Take(seq, n) == SubSeq(seq, 1, Min(n, Len(seq)))

\* a variant of get_messages that leaves the list as the query returned it
KeepOrder(seq) == seq

\* list.reverse()
Reverse(seq) == [i \in 1..Len(seq) |-> seq[Len(seq) + 1 - i]]

\* an Optional[int] is <<>> for None and <<x>> for x; "if before_id:" takes
\* neither None nor 0
Truthy(before_id) == before_id # <<>> /\ before_id[1] # 0

\* a variant of get_messages that returns the rows as they are stored
get_messages_rows(s, chat_id, limit, before_id) ==
    LET rows == {m \in VisibleMessages(s) : m.chat_id = chat_id}
        older == IF Truthy(before_id) THEN {m \in rows : m.id < before_id[1]}
                 ELSE rows
    IN  Reverse(Take(Descending(older), limit))

\* get_messages after require_chat_by_id: the rows of the chat, below before_id
\* when it is given, the limit latest by created_at, reversed and validated
get_messages(s, chat_id, limit, before_id) ==
    LET rows == {m \in VisibleMessages(s) : m.chat_id = chat_id}
        older == IF Truthy(before_id) THEN {m \in rows : m.id < before_id[1]}
                 ELSE rows
        list == Reverse(Take(Descending(older), limit))
    IN  [i \in 1..Len(list) |-> model_validate(list[i])]

\* GET /chat/{c}/messages?limit=..&before_id=..
GetMessages(s, c, limit, before_id) ==
    /\ Ready(s) /\ ~IsWs(s)
    /\ LET u == Caller(s)
           found == MemberChats(s, c, u)
           ch == CHOOSE x \in found : TRUE
           gate == get_friendship_status(ch.user1_id, ch.user2_id)
           call == [NoOp EXCEPT !.kind = "get", !.user = u, !.chat = c]
       IN  IF found = {}
           THEN /\ op' = [op EXCEPT ![s] = call]
                /\ pc' = [pc EXCEPT ![s] = Raised("404")]
                /\ UNCHANGED friendship_cache
           ELSE IF gate # "ok"
           THEN /\ op' = [op EXCEPT ![s] = [call EXCEPT !.peer = OtherUser(ch, u)]]
                /\ pc' = [pc EXCEPT ![s] = Raised(gate)]
                /\ UNCHANGED friendship_cache
           ELSE /\ friendship_cache' = CacheAfter(ch.user1_id, ch.user2_id)
                /\ op' = [op EXCEPT ![s] =
                             [call EXCEPT !.peer = OtherUser(ch, u),
                                          !.page = get_messages(s, c, limit, before_id)]]
                /\ pc' = [pc EXCEPT ![s] = "done"]
    /\ UNCHANGED <<friendship, dbVars, connVars, busVars, pushes, clock, tx>>

\* ------------------------------------------------------------ get_chat_list
\* the attributes of a Chat object: its columns and relationships
ChatAttributes == {"id", "user1_id", "user2_id", "created_at", "messages",
                   "user1", "user2"}

\* the fields of schemas.ChatResponse that have no default: an Optional
\* annotation alone does not make a field optional
ChatResponseRequired == {"id", "user1_id", "user2_id", "created_at", "last_message"}

\* the chats of the user, latest first (chat ids grow with created_at)
RECURSIVE LatestFirst(_)
LatestFirst(cs) ==
    IF cs = {} THEN <<>>
    ELSE LET c == CHOOSE x \in cs : \A y \in cs : x.id >= y.id
         IN  <<c>> \o LatestFirst(cs \ {c})

\* the entry get_chat_list builds for one chat: the row with the latest
\* created_at as last_message (<<>> for None) and the count of the rows of the
\* other participant that are not READ
ChatSummary(s, chat, user_id) ==
    LET rows == {m \in VisibleMessages(s) : m.chat_id = chat.id}
        last == Take(Descending(rows), 1)
    IN  [id |-> chat.id,
         last_message |-> [i \in 1..Len(last) |-> model_validate(last[i])],
         unread_count |-> Cardinality({m \in rows : m.sender_id # user_id
                                                    /\ m.status # READ})]

\* GET /chat/list: the chats of the caller, for each the gate, the two
\* queries and the validation of the ChatResponse, which returns when every
\* required field is an attribute of the Chat object and raises ValidationError
\* ("Field required") otherwise; an exception of the gate or of the
\* validation ends the request
GetChatList(s) ==
    /\ Ready(s) /\ ~IsWs(s)
    /\ LET u == Caller(s)
           mine == {c \in VisibleChats(s) : c.user1_id = u \/ c.user2_id = u}
           list == LatestFirst(mine)
           call == [NoOp EXCEPT !.kind = "list", !.user = u]
           denied == {c \in mine : get_friendship_status(u, OtherUser(c, u)) # "ok"}
       IN  IF denied # {}
           THEN /\ op' = [op EXCEPT ![s] = call]
                /\ pc' = [pc EXCEPT ![s] =
                             Raised(get_friendship_status(
                                 u, OtherUser(CHOOSE c \in denied : TRUE, u)))]
                /\ UNCHANGED friendship_cache
           ELSE /\ friendship_cache' =
                      friendship_cache \cup {Key(u, OtherUser(c, u)) : c \in mine}
                /\ IF mine # {} /\ ~(ChatResponseRequired \subseteq ChatAttributes)
                   THEN /\ op' = [op EXCEPT ![s] = call]
                        /\ pc' = [pc EXCEPT ![s] = Raised("ValidationError")]
                   ELSE /\ op' = [op EXCEPT ![s] =
                                    [call EXCEPT !.page =
                                        [i \in 1..Len(list) |->
                                            ChatSummary(s, list[i], u)]]]
                        /\ pc' = [pc EXCEPT ![s] = "done"]
    /\ UNCHANGED <<friendship, dbVars, connVars, busVars, pushes, clock, tx>>

\* a text frame as the loop of websocket_chat looks at it: whether json.loads
\* accepts it and returns an object, its "action", whether its "data" builds a
\* ChatMessageCreate, and its "chat_id" and "receiver_id" (<<>> when absent)
NotJson == [json |-> "invalid", action |-> "", data |-> "absent",
            chat_id |-> <<>>, receiver_id |-> <<>>]
JsonArray == [json |-> "array", action |-> "", data |-> "absent",
              chat_id |-> <<>>, receiver_id |-> <<>>]
UnknownAction == [json |-> "object", action |-> "typing", data |-> "absent",
                  chat_id |-> <<1>>, receiver_id |-> <<>>]
NoAction == [json |-> "object", action |-> "", data |-> "valid",
             chat_id |-> <<>>, receiver_id |-> <<2>>]
SendNoTarget == [json |-> "object", action |-> "send", data |-> "valid",
                 chat_id |-> <<>>, receiver_id |-> <<>>]
SendZeroTarget == [json |-> "object", action |-> "send", data |-> "valid",
                   chat_id |-> <<0>>, receiver_id |-> <<0>>]
SendNoData == [json |-> "object", action |-> "send", data |-> "absent",
               chat_id |-> <<>>, receiver_id |-> <<2>>]
SendBadType == [json |-> "object", action |-> "send", data |-> "invalid",
                chat_id |-> <<1>>, receiver_id |-> <<>>]
ReadNoChat == [json |-> "object", action |-> "read", data |-> "absent",
               chat_id |-> <<>>, receiver_id |-> <<>>]
Frames == {NotJson, JsonArray, UnknownAction, NoAction, SendNoTarget,
           SendZeroTarget, SendNoData, SendBadType, ReadNoChat}

\* a variant of the loop whose else branch raises
DispatchStrict(frame) ==
    IF frame.json = "invalid" THEN "Invalid JSON"
    ELSE IF frame.json # "object" THEN "raise"
    ELSE IF frame.action = "send"
    THEN IF frame.data # "valid" THEN "raise"
         ELSE IF Truthy(frame.chat_id) THEN "send_in"
         ELSE IF ~Truthy(frame.receiver_id) THEN "Missing receiver"
         ELSE "send_to"
    ELSE IF frame.action = "read"
    THEN IF Truthy(frame.chat_id) THEN "read" ELSE "Missing chat_id"
    ELSE "raise"

\* the body of the loop of websocket_chat up to the call it makes: the text of
\* the error frame it answers with, the service call it goes on to, or "raise"
\* when a statement raises (payload.get on a list, payload["data"] absent,
\* ChatMessageCreate refusing the data)
Dispatch(frame) ==
    IF frame.json = "invalid" THEN "Invalid JSON"
    ELSE IF frame.json # "object" THEN "raise"
    ELSE IF frame.action = "send"
    THEN IF frame.data # "valid" THEN "raise"
         ELSE IF Truthy(frame.chat_id) THEN "send_in"
         ELSE IF ~Truthy(frame.receiver_id) THEN "Missing receiver"
         ELSE "send_to"
    ELSE IF frame.action = "read"
    THEN IF Truthy(frame.chat_id) THEN "read" ELSE "Missing chat_id"
    ELSE "Unknown action"

\* websocket.send_text(json.dumps({"error": reason})) on the caller's socket
ErrorFrame(to, reason) ==
    [to |-> to, type |-> "error", message_id |-> 0, status |-> reason,
     via |-> "socket"]

\* the loop of websocket_chat takes a frame that reaches no service call: it
\* answers with an error frame and awaits the next frame, or a statement
\* raises and the loop is left through "except Exception"
Receive(s, frame) ==
    /\ Ready(s) /\ IsWs(s)
    /\ Dispatch(frame) \notin {"send_in", "send_to", "read"}
    /\ op' = [op EXCEPT ![s] = [NoOp EXCEPT !.kind = "frame", !.user = Caller(s)]]
    /\ IF Dispatch(frame) = "raise"
       THEN /\ pc' = [pc EXCEPT ![s] = Raised("500")]
            /\ UNCHANGED pushes
       ELSE /\ pushes' = pushes \cup {ErrorFrame(Caller(s), Dispatch(frame))}
            /\ UNCHANGED pc
    /\ UNCHANGED <<friendship, friendship_cache, dbVars, connVars, busVars, clock, tx>>

\* the websocket handler returned: the loop of websocket_chat awaits the next
\* frame; the connection's session keeps what it flushed
WsReturn(s) ==
    /\ IsWs(s) /\ pc[s] = "done"
    /\ pc' = [pc EXCEPT ![s] = "idle"]
    /\ op' = [op EXCEPT ![s] = NoOp]
    /\ UNCHANGED <<friendship, friendship_cache, dbVars, connVars, busVars, pushes, clock,
                   tx>>

\* db.session.get_db when the HTTP handler is over: session.commit() after a
\* return, session.rollback() after an exception
HttpReturn(s) ==
    /\ ~IsWs(s) /\ pc[s] \in {"done"} \cup Errors
    /\ IF pc[s] = "done"
       THEN CommitTx(s)
       ELSE /\ tx' = [tx EXCEPT ![s] = EmptyTx]
            /\ UNCHANGED <<chats, messages>>
    /\ pc' = [pc EXCEPT ![s] = "idle"]
    /\ op' = [op EXCEPT ![s] = NoOp]
    /\ UNCHANGED <<friendship, friendship_cache, nextChatId, nextMsgId,
                   connVars, busVars, pushes, clock>>

\* ------------------------------------------------------------- connections
\* the seconds given to setex for the key user_ws:{u}
PresenceTtl == 3600 * 24

\* a variant of the setex of connect that writes the key without the day's ttl
SetexShort(u, ttl, value) ==
    {e \in presence : e.user # u} \cup {[user |-> u, value |-> value, ttl |-> 0]}

\* redis setex user_ws:{u}: the key is written with its value and a new ttl
Setex(u, ttl, value) ==
    {e \in presence : e.user # u} \cup {[user |-> u, value |-> value, ttl |-> ttl]}

\* a connection with no websocket_chat running and no task left
NoSocket == [loop |-> FALSE, open |-> FALSE, task |-> "none", queue |-> <<>>,
             log |-> <<>>]

\* the connections of u that a new websocket can take
Free(u) == {d \in Devices : /\ ~sockets[<<u, d>>].loop
                             /\ sockets[<<u, d>>].task = "none"}

\* ConnectionManager.connect after the validation: the redis flag, then the
\* websocket and a new forwarding task (it has not subscribed yet) are stored
\* under the user's id, in place of what was stored there: the websocket and
\* the task of an earlier connection of the user stay as they are
Register(u) ==
    /\ Free(u) # {}
    /\ LET d == CHOOSE x \in Free(u) : \A y \in Free(u) : x <= y
       IN  /\ device' = [device EXCEPT ![u] = d]
           /\ sockets' = [sockets EXCEPT ![<<u, d>>] =
                             [loop |-> TRUE, open |-> TRUE, task |-> "created",
                              queue |-> <<>>, log |-> <<>>]]
    /\ presence' = Setex(u, PresenceTtl, "connected")
    /\ connected' = connected \cup {u}
    /\ subscribed' = subscribed \ {u}
    /\ UNCHANGED published

\* ConnectionManager.connect with a valid token
Connect(u) ==
    /\ u \in WsUsers \ connected
    /\ Register(u)
    /\ UNCHANGED <<friendship, friendship_cache, dbVars, pushes, clock, pc, op, tx>>

\* the same, by a client of a user whose earlier connection is still
\* registered (a second device, or a reconnect before the old socket ended)
ConnectAgain(u) ==
    /\ u \in WsUsers \cap connected
    /\ Register(u)
    /\ UNCHANGED <<friendship, friendship_cache, dbVars, pushes, clock, pc, op, tx>>

\* the keys of subscribe_tasks: connect stores the task right after the handle
\* with no await between the two, disconnect removes the handle and the task
subscribe_tasks == connected

\* a token as connect sees it: whether decode_token raises on it (bad
\* signature, expired, malformed, empty), and the user_id claim of its payload
\* as <<python type, value>>, <<"absent", 0>> when the payload has none
Forged(c) == [decode |-> "raises", user_id |-> <<"int", c>>]
NoClaim == [decode |-> "payload", user_id |-> <<"absent", 0>>]
Zero == [decode |-> "payload", user_id |-> <<"int", 0>>]
Text(c) == [decode |-> "payload", user_id |-> <<"str", c>>]
Good(c) == [decode |-> "payload", user_id |-> <<"int", c>>]
\* the tokens the client of user c presents
Tokens(c) == {Forged(c), NoClaim, Zero, Text(c), Good(c)}

\* a variant of the validation of connect that uses the claim of a token whose
\* decoding raised
connect_unverified(token) ==
    IF token.user_id[1] = "int" /\ token.user_id[2] > 0
    THEN <<token.user_id[2]>>
    ELSE <<>>

\* the try block of ConnectionManager.connect: the user id, or <<>> for the
\* None of its except branch
connect(token) ==
    IF token.decode = "raises" THEN <<>>
    ELSE IF token.user_id[1] = "int" /\ token.user_id[2] > 0
    THEN <<token.user_id[2]>>
    ELSE <<>>

\* the code of websocket.close in the except branch of connect
PolicyViolation == 1008

\* the client of user c opens /chat/ws?token=..: connect accepts the socket
\* and validates the token; on None the socket is closed with 1008 and
\* websocket_chat returns, otherwise the connection is registered
Open(c, token) ==
    /\ c \in WsUsers \ connected
    /\ pc[<<"ws", c>>] = "idle"
    /\ IF connect(token) = <<>>
       THEN /\ op' = [op EXCEPT ![<<"ws", c>>] =
                        [NoOp EXCEPT !.kind = "connect", !.closed = PolicyViolation]]
            /\ UNCHANGED <<friendship, friendship_cache, dbVars, connVars, busVars, pushes,
                           clock, pc, tx>>
       ELSE /\ Register(connect(token)[1])
            /\ op' = [op EXCEPT ![<<"ws", c>>] = NoOp]
            /\ UNCHANGED <<friendship, friendship_cache, dbVars, pushes, clock, pc, tx>>

\* redis drops the key user_ws:{u} when its ttl has run out
Expire(u) ==
    /\ \E e \in presence : e.user = u
    /\ presence' = {e \in presence : e.user # u}
    /\ UNCHANGED <<friendship, friendship_cache, dbVars, connected, subscribed,
                   device, busVars, pushes, clock, pc, op, tx>>

\* the forwarding task of connection <<u, d>> reaches pubsub.subscribe
Start(u, d) ==
    /\ sockets[<<u, d>>].task = "created"
    /\ sockets' = [sockets EXCEPT ![<<u, d>>].task = "subscribed"]
    /\ subscribed' = IF device[u] = d THEN subscribed \cup {u} ELSE subscribed
    /\ UNCHANGED <<friendship, friendship_cache, dbVars, presence, connected,
                   device, published, pushes, clock, pc, op, tx>>

\* _subscribe_to_user of the registered connection reaches pubsub.subscribe
Subscribe(u) ==
    /\ u \in connected \ subscribed
    /\ Start(u, device[u])

\* the next message pubsub.listen() yields and what stays pending
listen_newest(queue) ==
    [message |-> queue[Len(queue)], rest |-> SubSeq(queue, 1, Len(queue) - 1)]

listen(queue) == [message |-> Head(queue), rest |-> Tail(queue)]

\* one turn of the loop of _subscribe_to_user: the next message of the channel
\* is written to the task's websocket; on a websocket that is closed send_text
\* raises, the task logs it, unsubscribes and ends
Forward(u, d) ==
    /\ sockets[<<u, d>>].task = "subscribed"
    /\ sockets[<<u, d>>].queue # <<>>
    /\ IF sockets[<<u, d>>].open
       THEN /\ sockets' = [sockets EXCEPT
                             ![<<u, d>>].log = Append(@, listen(sockets[<<u, d>>].queue).message),
                             ![<<u, d>>].queue = listen(@).rest]
            /\ UNCHANGED subscribed
       ELSE /\ sockets' = [sockets EXCEPT ![<<u, d>>].task = "none",
                                          ![<<u, d>>].queue = <<>>]
            /\ subscribed' = IF device[u] = d THEN subscribed \ {u} ELSE subscribed
    /\ UNCHANGED <<friendship, friendship_cache, dbVars, presence, connected,
                   device, published, pushes, clock, pc, op, tx>>

\* what the router's manager holds
Manager == [presence |-> presence, connected |-> connected,
            subscribed |-> subscribed, device |-> device, sockets |-> sockets]

\* ConnectionManager.disconnect: the websocket stored under the user's id, if
\* any, is removed and closed; the task stored under it, if any, is cancelled
\* and removed; the redis flag is deleted
disconnect(m, u) ==
    [presence |-> {e \in m.presence : e.user # u},
     connected |-> m.connected \ {u},
     subscribed |-> m.subscribed \ {u},
     device |-> [m.device EXCEPT ![u] = 0],
     sockets |-> IF m.device[u] = 0 THEN m.sockets
                 ELSE [m.sockets EXCEPT ![<<u, m.device[u]>>].open = FALSE,
                                        ![<<u, m.device[u]>>].task = "none",
                                        ![<<u, m.device[u]>>].queue = <<>>]]

\* the read loop of websocket_chat of connection <<u, d>> ends (the client
\* left, the socket was closed, or a handler raised): finally
\* manager.disconnect(user_id), then get_db commits the connection's session
Leave(u, d) ==
    /\ sockets[<<u, d>>].loop
    /\ pc[<<"ws", u>>] \in {"idle"} \cup Errors
    /\ LET m == disconnect(Manager, u)
       IN  /\ presence' = m.presence
           /\ connected' = m.connected
           /\ subscribed' = m.subscribed
           /\ device' = m.device
           /\ sockets' = [m.sockets EXCEPT ![<<u, d>>].loop = FALSE,
                                           ![<<u, d>>].open = FALSE]
    /\ CommitTx(<<"ws", u>>)
    /\ pc' = [pc EXCEPT ![<<"ws", u>>] = "idle"]
    /\ op' = [op EXCEPT ![<<"ws", u>>] = NoOp]
    /\ UNCHANGED <<friendship, friendship_cache, nextChatId, nextMsgId,
                   published, pushes, clock>>

\* the same for the connection that is registered under the user's id
Disconnect(u) ==
    /\ u \in connected
    /\ Leave(u, device[u])

\* ------------------------------------------------------------ users service
\* what a users-service handler leaves alone
chatVars == <<friendship_cache, chats, messages, nextChatId, nextMsgId, presence,
              connected, subscribed, device, sockets, published, pushes, clock,
              pc, op, tx>>

\* users.services.request_friend: refused when a BLOCKED row exists, when the
\* pair is already ACCEPTED or PENDING, and (MultipleResultsFound, or the primary
\* key of the insert) when the checks or the insert fail
request_friend(u, to) ==
    /\ u # to
    /\ IF \/ Cardinality(RowsBetween(u, to)) > 1
          \/ \E p \in RowsBetween(u, to) : friendship[p] \in {BLOCKED, ACCEPTED, PENDING}
          \/ friendship[<<u, to>>] # "none"
       THEN friendship' = friendship
       ELSE friendship' = [friendship EXCEPT ![<<u, to>>] = PENDING]
    /\ UNCHANGED chatVars

\* users.services.accept_or_decline_friend: the PENDING row from_id -> user is
\* set to ACCEPTED and a reverse ACCEPTED row is inserted, or it is set to
\* REJECTED; a reverse row already there fails the insert and rolls back
accept_or_decline_friend(u, from, action) ==
    /\ u # from
    /\ IF friendship[<<from, u>>] # PENDING
       THEN friendship' = friendship
       ELSE IF action = "accept"
       THEN IF friendship[<<u, from>>] # "none"
            THEN friendship' = friendship
            ELSE friendship' = [friendship EXCEPT ![<<from, u>>] = ACCEPTED,
                                                  ![<<u, from>>] = ACCEPTED]
       ELSE friendship' = [friendship EXCEPT ![<<from, u>>] = REJECTED]
    /\ UNCHANGED chatVars

\* users.services.delete_friend: db.delete(...) is called without await, so the
\* coroutine never runs and no row is deleted; the handler answers with the row
\* (or 404) and the table stays as it is
delete_friend(u, friend) ==
    /\ u # friend
    /\ friendship' = friendship
    /\ UNCHANGED chatVars

\* users.services.block_user: the one row between the two users becomes BLOCKED,
\* or a BLOCKED row user -> to_id is inserted; with two rows the first lookup
\* raises MultipleResultsFound, with a BLOCKED row the handler refuses.  Nothing
\* here touches services.friendship_cache of the chat service.
block_user(u, to) ==
    /\ u # to
    /\ LET rows == RowsBetween(u, to)
       IN  IF Cardinality(rows) > 1 THEN friendship' = friendship
           ELSE IF rows = {} THEN friendship' = [friendship EXCEPT ![<<u, to>>] = BLOCKED]
           ELSE LET p == CHOOSE x \in rows : TRUE
                IN  IF friendship[p] = BLOCKED THEN friendship' = friendship
                    ELSE friendship' = [friendship EXCEPT ![p] = BLOCKED]
    /\ UNCHANGED chatVars

\* the chat service is started again while no request is running and no
\* websocket is open: the module-level friendship_cache starts empty, the
\* database and redis keep what they hold
Restart ==
    /\ \A t \in Sessions : pc[t] = "idle" /\ tx[t] = EmptyTx
    /\ connected = {} /\ \A c \in Conns : sockets[c] = NoSocket
    /\ friendship_cache' = {}
    /\ UNCHANGED <<friendship, dbVars, connVars, busVars, pushes, clock, pc, op, tx>>

\* ------------------------------------------------------------ specification
WsSessions == {s \in Sessions : IsWs(s)}
ChatIds == 1..MaxMsgs

\* a friendship table with one ACCEPTED row for the pairs (1,2) and (1,3) and no
\* row for (2,3)
SeedFriendship ==
    [p \in DirPairs |-> IF p \in {<<1, 2>>, <<1, 3>>} THEN ACCEPTED ELSE "none"]

\* a friendship table without rows
NoFriendship == [p \in DirPairs |-> "none"]

InitRest ==
    /\ friendship_cache = {}
    /\ chats = {}
    /\ messages = {}
    /\ nextChatId = 1
    /\ nextMsgId = 1
    /\ presence = {}
    /\ connected = {}
    /\ subscribed = {}
    /\ device = [u \in Users |-> 0]
    /\ sockets = [c \in Conns |-> NoSocket]
    /\ published = [u \in Users |-> 0]
    /\ pushes = {}
    /\ clock = 1
    /\ pc = [s \in Sessions |-> "idle"]
    /\ op = [s \in Sessions |-> NoOp]
    /\ tx = [s \in Sessions |-> EmptyTx]

Init == friendship = SeedFriendship /\ InitRest

\* the request body of the sends of the specifications that do not look at it
Hello == [content |-> "hello", type |-> "TEXT", reply_to_id |-> <<>>]

\* the websocket endpoint /chat/ws of two users, each with its own connection
\* and database session, and POST /chat/messages/{c} of user 1.  The forwarding
\* tasks are left to the other specifications: whether a published frame
\* reaches a socket changes nothing the service does.
HttpSender == <<"http", 1>>

Next ==
    \/ \E s \in WsSessions : \E r \in Users \ {Caller(s)} : SendTo(s, r, Hello)
    \/ \E c \in ChatIds : SendIn(HttpSender, c, Hello)
    \/ \E s \in WsSessions \cup {HttpSender} : SendFlush(s, TRUE)
    \/ \E s \in WsSessions \cup {HttpSender} : SendCommit(s)
    \/ \E s \in WsSessions \cup {HttpSender} : SendPush(s)
    \/ SendProbe(HttpSender, TRUE)
    \/ SendUpgrade(HttpSender, TRUE)
    \/ SendNotify(HttpSender, TRUE)
    \/ \E s \in WsSessions, c \in ChatIds : MarkSelect(s, c)
    \/ \E s \in WsSessions : MarkFlush(s)
    \/ \E s \in WsSessions : MarkNotify(s, TRUE)
    \/ \E s \in WsSessions : WsReturn(s)
    \/ HttpReturn(HttpSender)
    \/ \E u \in WsUsers : Connect(u)
    \/ \E u \in WsUsers : Disconnect(u)

Spec == Init /\ [][Next]_vars

\* the users service changing the links of user 1 while user 1 chats over its
\* websocket; the table starts empty or with the seeded rows
GateSession == <<"ws", 1>>
GatePeers == {2}

InitGate == friendship \in {NoFriendship, SeedFriendship} /\ InitRest

NextGate ==
    \/ \E r \in GatePeers : SendTo(GateSession, r, Hello)
    \/ SendFlush(GateSession, TRUE)
    \/ SendCommit(GateSession)
    \/ SendPush(GateSession)
    \/ \E u \in WsUsers : Connect(u)
    \/ \E u \in WsUsers : Subscribe(u)
    \/ \E u \in WsUsers : Disconnect(u)
    \/ \E r \in GatePeers : request_friend(1, r) \/ request_friend(r, 1)
    \/ \E r \in GatePeers, a \in {"accept", "decline"} :
          accept_or_decline_friend(1, r, a) \/ accept_or_decline_friend(r, 1, a)
    \/ \E r \in GatePeers : block_user(1, r) \/ block_user(r, 1)
    \/ \E r \in GatePeers : delete_friend(1, r) \/ delete_friend(r, 1)

SpecGate == InitGate /\ [][NextGate]_vars

\* user 1 sends over its websocket (the first message, which creates the chat)
\* and through POST /chat/messages/{c}; user 2 reads over its websocket and
\* through POST /chat/{c}/read, each with its own database session.  The clients
\* make one call at a time: a call is requested only when every earlier call
\* has returned.
Sender == <<"ws", 1>>
Senders == {Sender, HttpSender}
Readers == {<<"ws", 2>>, <<"http", 2>>}

\* no call is running
Quiet == \A t \in Sessions : pc[t] = "idle"

\* a frame {"action": "send", "receiver_id": r} sent when no call is running
SendCall(s, r) == Quiet /\ SendTo(s, r, Hello)

\* POST /chat/messages/{c} requested when no call is running
PostCall(s, c) == Quiet /\ SendIn(s, c, Hello)

\* a read requested on either endpoint when no call is running
ReadCall(s, c) == Quiet /\ MarkSelect(s, c)

NextHttp ==
    \/ SendCall(Sender, 2)
    \/ \E c \in ChatIds : PostCall(HttpSender, c)
    \/ \E s \in Senders : SendFlush(s, TRUE)
    \/ \E s \in Senders : SendCommit(s)
    \/ \E s \in Senders : SendPush(s)
    \/ SendProbe(HttpSender, TRUE)
    \/ SendUpgrade(HttpSender, TRUE)
    \/ SendNotify(HttpSender, TRUE)
    \/ \E s \in Readers, c \in ChatIds : ReadCall(s, c)
    \/ \E s \in Readers : MarkFlush(s)
    \/ \E s \in Readers : MarkNotify(s, TRUE)
    \/ \E s \in WsSessions : WsReturn(s)
    \/ \E s \in Readers \cup {HttpSender} : HttpReturn(s)
    \/ \E u \in WsUsers : Connect(u)
    \/ \E u \in WsUsers : Subscribe(u)
    \/ \E u \in WsUsers : Disconnect(u)

SpecHttp == Init /\ [][NextHttp]_vars

\* user 1 writes to user 2 over its websocket (the first message, which creates
\* the chat) and through POST /chat/messages/{c}, user 2 marks read over its
\* websocket, and user 2 pages through GET /chat/{c}/messages.  A page request
\* is answered before another session takes its next step: the response is a
\* value the request computed, and no session reads it.  User 1 sends its
\* messages back-to-back: a send is requested when the message of the send
\* before it is committed, whatever that send still has to do.
Pager == <<"http", 2>>
Photo == [content |-> "photo", type |-> "IMAGE", reply_to_id |-> <<>>]
Bodies == {Hello, Photo}
\* limit is validated to 1..100 by the endpoint
Limits == {1, 2}
\* before_id: absent, or an integer
Cursors == {<<>>, <<0>>, <<1>>, <<2>>, <<3>>}

\* the pager has no request running
PagerIdle == pc[Pager] = "idle"

\* no send is between its start and its commit
Created == \A t \in Senders : pc[t] \notin {"built", "flushed"}

NextPage ==
    \/ PagerIdle /\ Created /\ SendTo(Sender, 2, Hello)
    \/ \E c \in ChatIds, d \in Bodies : PagerIdle /\ Created /\ SendIn(HttpSender, c, d)
    \/ \E s \in Senders : PagerIdle /\ SendFlush(s, TRUE)
    \/ \E s \in Senders : PagerIdle /\ SendCommit(s)
    \/ \E s \in Senders : PagerIdle /\ SendPush(s)
    \/ PagerIdle /\ SendProbe(HttpSender, TRUE)
    \/ PagerIdle /\ SendUpgrade(HttpSender, TRUE)
    \/ PagerIdle /\ SendNotify(HttpSender, TRUE)
    \/ \E c \in ChatIds : PagerIdle /\ MarkSelect(<<"ws", 2>>, c)
    \/ PagerIdle /\ MarkFlush(<<"ws", 2>>)
    \/ PagerIdle /\ MarkNotify(<<"ws", 2>>, TRUE)
    \/ PagerIdle /\ WsReturn(<<"ws", 2>>)
    \/ PagerIdle /\ HttpReturn(HttpSender)
    \/ \E u \in WsUsers : PagerIdle /\ Connect(u)
    \/ \E u \in WsUsers : PagerIdle /\ Disconnect(u)
    \/ \E c \in ChatIds, l \in Limits, b \in Cursors : GetMessages(Pager, c, l, b)
    \/ HttpReturn(Pager)

SpecPage == Init /\ [][NextPage]_vars

\* the calls of SpecHttp with a store, a redis and a bus that can fail: the
\* INSERT of the message, the presence probe, the UPDATE to DELIVERED and the
\* publish of a status_update each succeed or raise
NextFault ==
    \/ SendCall(Sender, 2)
    \/ \E c \in ChatIds : PostCall(HttpSender, c)
    \/ \E s \in Senders, ok \in BOOLEAN : SendFlush(s, ok)
    \/ \E s \in Senders : SendCommit(s)
    \/ \E s \in Senders : SendPush(s)
    \/ \E ok \in BOOLEAN : SendProbe(HttpSender, ok)
    \/ \E ok \in BOOLEAN : SendUpgrade(HttpSender, ok)
    \/ \E ok \in BOOLEAN : SendNotify(HttpSender, ok)
    \/ \E s \in Readers, c \in ChatIds : ReadCall(s, c)
    \/ \E s \in Readers : MarkFlush(s)
    \/ \E s \in Readers, ok \in BOOLEAN : MarkNotify(s, ok)
    \/ \E s \in WsSessions : WsReturn(s)
    \/ \E s \in Readers \cup {HttpSender} : HttpReturn(s)
    \/ \E u \in WsUsers : Connect(u)
    \/ \E u \in WsUsers : Disconnect(u)

SpecFault == Init /\ [][NextFault]_vars

\* the clients of users 1 and 2 open /chat/ws with the tokens they hold and
\* leave; the presence keys run out; user 1 sends over its websocket and
\* through POST /chat/messages/{c}, which probes the presence of user 2
NextConn ==
    \/ \E c \in WsUsers : \E k \in Tokens(c) : Open(c, k)
    \/ \E u \in WsUsers : Subscribe(u)
    \/ \E u \in WsUsers : Disconnect(u)
    \/ \E u \in WsUsers : Expire(u)
    \/ SendCall(Sender, 2)
    \/ \E c \in ChatIds : PostCall(HttpSender, c)
    \/ \E s \in Senders : SendFlush(s, TRUE)
    \/ \E s \in Senders : SendCommit(s)
    \/ \E s \in Senders : SendPush(s)
    \/ SendProbe(HttpSender, TRUE)
    \/ SendUpgrade(HttpSender, TRUE)
    \/ SendNotify(HttpSender, TRUE)
    \/ HttpReturn(HttpSender)

SpecConn == Init /\ [][NextConn]_vars

\* users 1 and 2 send over their websockets, one call at a time, to any user:
\* each other, user 3, and themselves
NextPair ==
    \/ \E s \in WsSessions, r \in Users : SendCall(s, r)
    \/ \E s \in WsSessions : SendFlush(s, TRUE)
    \/ \E s \in WsSessions : SendCommit(s)
    \/ \E s \in WsSessions : SendPush(s)
    \/ \E u \in WsUsers : Connect(u)
    \/ \E u \in WsUsers : Disconnect(u)

SpecPair == Init /\ [][NextPair]_vars

\* user 1 writes to users 2 and 3 over its websocket; user 2 marks read (on
\* its websocket and through POST /chat/{c}/read) and pages through
\* GET /chat/{c}/messages, naming its own chat, the chat of users 1 and 3, and
\* ids no chat has; one call at a time
NextMember ==
    \/ \E r \in {2, 3} : SendCall(Sender, r)
    \/ SendFlush(Sender, TRUE)
    \/ SendCommit(Sender)
    \/ SendPush(Sender)
    \/ \E s \in Readers, c \in ChatIds : ReadCall(s, c)
    \/ \E s \in Readers : MarkFlush(s)
    \/ \E s \in Readers : MarkNotify(s, TRUE)
    \/ \E c \in ChatIds, l \in Limits, b \in Cursors :
          Quiet /\ GetMessages(Pager, c, l, b)
    \/ \E s \in WsSessions : WsReturn(s)
    \/ HttpReturn(Pager)
    \/ \E u \in WsUsers : Connect(u)
    \/ \E u \in WsUsers : Disconnect(u)

SpecMember == Init /\ [][NextMember]_vars

\* user 1 writes to users 2 and 3 over its websocket, one call at a time, each
\* message a reply to the message id the client names, or to none
ReplyIds == {<<>>, <<1>>, <<2>>, <<3>>}
Replies == {[content |-> "re", type |-> "TEXT", reply_to_id |-> i] : i \in ReplyIds}

NextReply ==
    \/ \E r \in {2, 3}, d \in Replies : Quiet /\ SendTo(Sender, r, d)
    \/ SendFlush(Sender, TRUE)
    \/ SendCommit(Sender)
    \/ SendPush(Sender)
    \/ \E u \in WsUsers : Connect(u)
    \/ \E u \in WsUsers : Disconnect(u)

SpecReply == Init /\ [][NextReply]_vars

\* user 1 writes to user 2 over its websocket; user 2 marks read and answers
\* on one websocket connection, and the INSERT of its answer succeeds or
\* fails; one call at a time
Answerer == <<"ws", 2>>

NextUnit ==
    \/ SendCall(Sender, 2)
    \/ SendCall(Answerer, 1)
    \/ SendFlush(Sender, TRUE)
    \/ \E ok \in BOOLEAN : SendFlush(Answerer, ok)
    \/ \E s \in WsSessions : SendCommit(s)
    \/ \E s \in WsSessions : SendPush(s)
    \/ \E c \in ChatIds : ReadCall(Answerer, c)
    \/ MarkFlush(Answerer)
    \/ MarkNotify(Answerer, TRUE)
    \/ WsReturn(Answerer)
    \/ \E u \in WsUsers : Connect(u)
    \/ \E u \in WsUsers : Disconnect(u)

SpecUnit == Init /\ [][NextUnit]_vars

\* users 1 and 2 on their websockets, one frame at a time.  User 1 sends
\* frames that reach no service call and writes to its friends 2 and 3; user 2
\* writes to user 3, who is not its friend, and sends and reads by chat_id,
\* naming its own chat, the chat of users 1 and 3, and ids no chat has
NextFrame ==
    \/ \E f \in Frames : Quiet /\ Receive(Sender, f)
    \/ \E r \in {2, 3} : SendCall(Sender, r)
    \/ SendCall(Answerer, 3)
    \/ \E c \in ChatIds : PostCall(Answerer, c)
    \/ \E s \in WsSessions : SendFlush(s, TRUE)
    \/ \E s \in WsSessions : SendCommit(s)
    \/ \E s \in WsSessions : SendPush(s)
    \/ \E c \in ChatIds : ReadCall(Answerer, c)
    \/ MarkFlush(Answerer)
    \/ MarkNotify(Answerer, TRUE)
    \/ WsReturn(Answerer)
    \/ \E u \in WsUsers : Connect(u)
    \/ \E u \in WsUsers : Subscribe(u)
    \/ \E u \in WsUsers : Disconnect(u)

SpecFrame == Init /\ [][NextFrame]_vars

\* user 1 writes to users 2 and 3 over its websocket, user 2 marks read on its
\* websocket, and users 1 and 2 ask for GET /chat/list; one call at a time.
\* Users 2 and 3 can block user 1, and the service can be started again.
NextList ==
    \/ \E r \in {2, 3} : SendCall(Sender, r)
    \/ SendFlush(Sender, TRUE)
    \/ SendCommit(Sender)
    \/ SendPush(Sender)
    \/ \E c \in ChatIds : ReadCall(Answerer, c)
    \/ MarkFlush(Answerer)
    \/ MarkNotify(Answerer, TRUE)
    \/ WsReturn(Answerer)
    \/ \E s \in {<<"http", 1>>, <<"http", 2>>} : Quiet /\ GetChatList(s)
    \/ \E s \in {<<"http", 1>>, <<"http", 2>>} : HttpReturn(s)
    \/ \E u \in WsUsers : Connect(u)
    \/ \E u \in WsUsers : Disconnect(u)
    \/ \E r \in {2, 3} : Quiet /\ block_user(r, 1)
    \/ Restart

SpecList == Init /\ [][NextList]_vars

\* user 1 on up to two websockets at a time, each with its forwarding task;
\* user 1 sends to user 2, over the websocket first (which creates the chat)
\* and then through POST /chat/messages/{c}, and user 2 marks read through
\* POST /chat/{c}/read: the "delivered" and "read" updates are published on
\* ws:1
NextDevice ==
    \/ SendCall(Sender, 2)
    \/ \E c \in ChatIds : PostCall(HttpSender, c)
    \/ \E s \in Senders : SendFlush(s, TRUE)
    \/ \E s \in Senders : SendCommit(s)
    \/ \E s \in Senders : SendPush(s)
    \/ SendProbe(HttpSender, TRUE)
    \/ SendUpgrade(HttpSender, TRUE)
    \/ SendNotify(HttpSender, TRUE)
    \/ \E c \in ChatIds : ReadCall(<<"http", 2>>, c)
    \/ MarkFlush(<<"http", 2>>)
    \/ MarkNotify(<<"http", 2>>, TRUE)
    \/ \E s \in {HttpSender, <<"http", 2>>} : HttpReturn(s)
    \/ \E u \in WsUsers : Connect(u)
    \/ ConnectAgain(1)
    \/ \E d \in Devices : Start(1, d)
    \/ \E d \in Devices : Forward(1, d)
    \/ \E d \in Devices : Leave(1, d)

SpecDevice == Init /\ [][NextDevice]_vars

\* POST /chat/messages/{c} of user 1 and POST /chat/{c}/read of user 2 as two
\* requests in flight at the same time, each with its own database session;
\* the chat is created by the first send of user 1, over its websocket
NextRace ==
    \/ chats = {} /\ SendTo(Sender, 2, Hello)
    \/ \E c \in ChatIds : SendIn(HttpSender, c, Hello)
    \/ \E s \in Senders : SendFlush(s, TRUE)
    \/ \E s \in Senders : SendCommit(s)
    \/ \E s \in Senders : SendPush(s)
    \/ SendProbe(HttpSender, TRUE)
    \/ SendUpgrade(HttpSender, TRUE)
    \/ SendNotify(HttpSender, TRUE)
    \/ \E c \in ChatIds : MarkSelect(<<"http", 2>>, c)
    \/ MarkFlush(<<"http", 2>>)
    \/ MarkNotify(<<"http", 2>>, TRUE)
    \/ \E s \in {HttpSender, <<"http", 2>>} : HttpReturn(s)
    \/ \E u \in WsUsers : Connect(u)
    \/ \E u \in WsUsers : Disconnect(u)

SpecRace == Init /\ [][NextRace]_vars

\* ------------------------------------------------------------- properties
\* C1: however the first messages of a pair interleave, at most one Chat row
\* exists for the pair
C1_OneChatPerPair ==
    \A c1 \in chats : \A c2 \in chats :
        (c1.user1_id = c2.user1_id /\ c1.user2_id = c2.user2_id) => c1 = c2

\* C2: under every interleaving of send_message and mark_as_read the stored
\* status of a message never moves down the order SENT < DELIVERED < READ
C2_StatusNeverDecreases ==
    [][\A m \in messages : \A n \in messages' :
          n.id = m.id => Rank(n.status) >= Rank(m.status)]_vars

\* C3: the 'message' push and the echo are attempted only after the Message
\* row is committed: from the moment send_message goes on to them, the row is
\* in the committed table and every session's get_messages finds it
C3_PushAfterCommit ==
    \A s \in Sessions :
        (op[s].kind = "send"
         /\ pc[s] \in {"committed", "pushed", "upgrade", "notify", "done"})
        => /\ \E m \in messages : m.id = MsgOf(s)
           /\ \A t \in Sessions : \E m \in VisibleMessages(t) : m.id = MsgOf(s)

\* a send_message has made its attempt to push the message to the receiver
C3_Pushed ==
    \E s \in Sessions :
        /\ pc[s] = "pushed" /\ op[s].kind = "send"
        /\ \E m \in messages : m.id = MsgOf(s) /\ m.status = SENT

\* C4: a send_message between two users without an accepted link ends in the
\* authorization error and writes no Chat, no Message and no frame
C4_DeniedSendHasNoEffect ==
    [][\A s \in Sessions :
          (/\ pc[s] = "idle" /\ pc'[s] # "idle"
           /\ op'[s].kind = "send"
           /\ ~Linked(op'[s].user, op'[s].peer))
          => (/\ pc'[s] = "e403"
              /\ UNCHANGED <<chats, messages, tx, nextChatId, nextMsgId, pushes>>)]_vars

\* C5: once the link of a pair is not accepted the gate denies the pair: a
\* send_message passes the gate only while an accepted row is stored
C5_GatePassesOnlyAccepted ==
    [][\A s \in Sessions :
          (pc[s] = "idle" /\ pc'[s] = "built")
          => Linked(op'[s].user, op'[s].peer)]_vars

\* C6: the gate lets a send_message through exactly when the stored link of the
\* pair is accepted (a pair linked by the accept workflow can send), and denies
\* it with the authorization error otherwise
C6_GateIffAccepted ==
    [][\A s \in Sessions :
          (pc[s] = "idle" /\ pc'[s] # "idle" /\ op'[s].kind = "send")
          => IF Linked(op'[s].user, op'[s].peer)
             THEN pc'[s] = "built"
             ELSE pc'[s] = "e403"]_vars

\* C7: the sender is sent status_update 'delivered' for a message only after
\* the 'message' frame of that message was sent to the receiver
C7_DeliveredAfterReceived ==
    \A f \in pushes :
        (f.type = "status_update" /\ f.status = DELIVERED)
        => \E g \in pushes :
              g.type = "message" /\ g.message_id = f.message_id /\ g.to # f.to

\* C8: when mark_as_read has returned, the messages it announced as 'read' are
\* stored READ-stamped: read_at is set in the committed row
C8_ReadIsStored ==
    \A f \in pushes :
        (f.type = "status_update" /\ f.status = READ) =>
            \/ \E s \in Sessions :
                  pc[s] = "done" /\ op[s].kind = "read" /\ f.message_id \in op[s].ids
            \/ \E m \in messages : m.id = f.message_id /\ m.read_at # NoTime

\* C9: calls of mark_as_read made one after the other never mark a message
\* twice: a row a call updates is not READ already, so a repeated call changes
\* no status and no read_at
C9_MarkReadIdempotent ==
    [][\A s \in Sessions :
          (pc[s] = "selected" /\ pc'[s] = "marked")
          => \A m \in VisibleMessages(s) : m.id \in op[s].ids => m.status # READ]_vars

\* C10: mark_as_read selects exactly the messages of the chat written by the
\* other participant whose status is below READ, sets those to READ with read_at
\* and leaves every other row as it was
C10_MarkReadFrame ==
    [][\A s \in Sessions :
          /\ (pc[s] = "idle" /\ pc'[s] \in {"selected", "done"} /\ op'[s].kind = "read")
             => /\ op'[s].ids =
                      {m.id : m \in {x \in VisibleMessages(s) :
                                        /\ x.chat_id = op'[s].chat
                                        /\ x.sender_id # Caller(s)
                                        /\ Rank(x.status) < Rank(READ)}}
                /\ UNCHANGED <<messages, tx>>
          /\ (pc[s] = "selected" /\ pc'[s] = "marked")
             => /\ messages' = messages
                /\ \A m \in VisibleMessages(s)' :
                      IF m.id \in op[s].ids
                      THEN m.status = READ /\ m.read_at # NoTime
                      ELSE m \in VisibleMessages(s)
                /\ \A m \in VisibleMessages(s) :
                      \E n \in VisibleMessages(s)' :
                          /\ n.id = m.id /\ n.chat_id = m.chat_id
                          /\ n.sender_id = m.sender_id
                          /\ n.delivered_at = m.delivered_at]_vars

\* a mark_as_read has marked a message while another message that is not READ
\* (the reader's own, or one of another chat) stays as it was
C10_MarkedSome ==
    \E s \in Sessions :
        /\ pc[s] = "marked" /\ op[s].ids # {}
        /\ \E m \in VisibleMessages(s) : m.id \notin op[s].ids /\ m.status # READ

\* C11: mark_as_read tells a sender 'read' only after the READ transition is
\* committed: at the moment a status_update 'read' frame is sent, on the HTTP
\* path as on the websocket path, the committed row of its message is READ
C11_ReadNotifiedAfterCommit ==
    [][\A f \in pushes' \ pushes :
          (f.type = "status_update" /\ f.status = READ)
          => \E m \in messages : m.id = f.message_id /\ m.status = READ]_vars

\* C12: get_messages(chat, limit, before_id = X) returns at most limit messages,
\* none with id >= X, oldest first, and they are the limit latest of the
\* messages of the chat with id < X
C12_PageBelowCursor ==
    [][\A c \in ChatIds, l \in Limits, b \in Cursors \ {<<>>} :
          (GetMessages(Pager, c, l, b) /\ pc'[Pager] = "done")
          => LET page == op'[Pager].page
                 below == {m \in VisibleMessages(Pager) :
                              m.chat_id = c /\ m.id < b[1]}
             IN  /\ Len(page) = Min(l, Cardinality(below))
                 /\ \A i \in 1..Len(page) :
                       /\ page[i].id < b[1]
                       /\ \E m \in below : m.id = page[i].id
                 /\ \A i \in 1..Len(page) : \A j \in 1..Len(page) :
                       i < j => page[i].created_at < page[j].created_at
                 /\ \A m \in below :
                       (\A i \in 1..Len(page) : page[i].id # m.id)
                       => \A i \in 1..Len(page) : m.created_at < page[i].created_at]_vars

\* C13: messages sent back-to-back in a chat come out of get_messages in the
\* order they were created, whatever their pushes, delivered upgrades and read
\* transitions did in between
C13_CreationOrder ==
    \A s \in Sessions :
        (pc[s] = "done" /\ op[s].kind = "get")
        => \A i \in 1..Len(op[s].page) : \A j \in 1..Len(op[s].page) :
              i < j => /\ op[s].page[i].id < op[s].page[j].id
                       /\ op[s].page[i].created_at < op[s].page[j].created_at

\* a page with two messages of which the later one went further in status than
\* the earlier one
C13_TwoInPage ==
    /\ pc[Pager] = "done" /\ Len(op[Pager].page) = 2
    /\ Rank(op[Pager].page[1].status) < Rank(op[Pager].page[2].status)

\* C14: a message send_message has returned, fetched by a get_messages without
\* before_id while it is the latest of its chat, is the last of the page and
\* has the id, content, type and sender_id of the returned object and a status
\* that is not below the returned one
C14_RoundTrip ==
    [][\A c \in ChatIds, l \in Limits :
          (GetMessages(Pager, c, l, <<>>) /\ pc'[Pager] = "done")
          => \A s \in Sessions :
                (/\ pc[s] = "done" /\ op[s].kind = "send" /\ op[s].chat = c
                 /\ \A m \in VisibleMessages(Pager) :
                       m.chat_id = c => m.id <= op[s].msg.id)
                => LET page == op'[Pager].page
                       got == page[Len(page)]
                       msg == op[s].msg
                   IN  /\ Len(page) >= 1
                       /\ got.id = msg.id
                       /\ got.content = msg.content
                       /\ got.type = msg.type
                       /\ got.sender_id = msg.sender_id
                       /\ Rank(got.status) >= Rank(msg.status)]_vars

\* the page ends with the picture message POST /chat/messages/{c} has just
\* returned, which is DELIVERED by now
C14_Fetched ==
    /\ pc[HttpSender] = "done" /\ op[HttpSender].kind = "send"
    /\ pc[Pager] = "done" /\ op[Pager].kind = "get" /\ Len(op[Pager].page) >= 1
    /\ LET got == op[Pager].page[Len(op[Pager].page)]
       IN  /\ got.id = op[HttpSender].msg.id
           /\ got.type = "IMAGE" /\ got.content = Photo.content
           /\ got.status = DELIVERED /\ op[HttpSender].msg.status = SENT

\* C15: send_personal returns True exactly when a frame was written directly
\* to a local connection of the user; a call that publishes on the user's
\* channel returns False.
C15_TrueIffLocalWrite ==
    \A s \in Sessions :
        op[s].sent # <<>>
        => (op[s].sent[2]
            <=> \E f \in pushes : /\ f.to = op[s].sent[1] /\ f.via = "socket"
                                  /\ f.message_id \in op[s].ids)

\* C16: an error of json.dumps, of the socket or of the publish inside
\* send_personal does not reach the caller: send_personal returns False, the
\* calling handler goes on to its return, and the committed Message rows are
\* what they were before the attempt.
C16_DeliverErrorIsSwallowed ==
    [][\A s \in Sessions :
          /\ SendNotify(s, FALSE)
             => /\ op'[s].sent = <<op[s].user, FALSE>>
                /\ pc'[s] = "done"
                /\ messages' = messages /\ pushes' = pushes
          /\ MarkNotify(s, FALSE)
             => /\ op'[s].sent = <<op[s].peer, FALSE>>
                /\ pc'[s] = "done"
                /\ messages' = messages /\ pushes' = pushes
          /\ SendPush(s)
             => /\ op'[s].sent = <<op[s].peer, FALSE>>
                /\ ~IsWs(s) => pc'[s] = "pushed"
                /\ messages' = messages /\ pushes' = pushes]_vars

\* POST /chat/messages/{c} has returned its message after the publish of the
\* 'delivered' status_update failed: the row is committed DELIVERED and no
\* frame tells the sender
C16_NotifyFailed ==
    /\ pc[HttpSender] = "done" /\ op[HttpSender].kind = "send"
    /\ op[HttpSender].sent = <<Caller(HttpSender), FALSE>>
    /\ \E m \in messages : m.id = MsgOf(HttpSender) /\ m.status = DELIVERED
    /\ \A f \in pushes : f.message_id # MsgOf(HttpSender)

\* C17: once send_message has committed its message, the call does not end in
\* an error, whatever fails afterwards (push, echo, presence probe, update to
\* DELIVERED, notification of the sender).
C17_CommittedSendReturns ==
    \A s \in Sessions :
        (op[s].kind = "send" /\ op[s].ids # {}
         /\ \E m \in messages : m.id = MsgOf(s))
        => pc[s] \notin Errors

\* C18: when the INSERT of the message fails, send_message ends in the error
\* with its transaction rolled back: the Chat row this call created is in no
\* table, no Message row was written, no frame is sent by the failing step, and
\* until the handler is left no row of that chat or message and no frame appears.
C18_FailedPersistRollsBack ==
    [][\A s \in Sessions :
          /\ (pc[s] = "built" /\ pc'[s] \notin {"built", "flushed"})
             => /\ pc'[s] = "e500"
                /\ tx'[s] = EmptyTx
                /\ \A c \in tx[s].chats : c \notin chats'
                /\ messages' = messages
                /\ nextMsgId' = nextMsgId
                /\ pushes' = pushes
          /\ (pc[s] = "e500" /\ op[s].kind = "send" /\ op[s].ids = {})
             => /\ pushes' = pushes
                /\ \A c \in chats' \ chats : c.id # op[s].chat
                /\ \A m \in messages' \ messages :
                      m.created_at # op[s].msg.created_at]_vars

\* the first send of the pair failed at its INSERT: the chat it created is
\* gone with the rollback
C18_RolledBack ==
    /\ pc[Sender] = "e500" /\ op[Sender].kind = "send" /\ op[Sender].ids = {}
    /\ op[Sender].chat = 1 /\ nextChatId = 2
    /\ chats = {} /\ messages = {} /\ tx[Sender] = EmptyTx

\* a token connect must refuse: its decoding raises, or its payload has no
\* user_id that is a positive integer
Refused(token) ==
    \/ token.decode = "raises"
    \/ token.user_id[1] # "int"
    \/ token.user_id[2] <= 0

\* C19: a connection opened with a token that is invalid, expired or without
\* a usable user id is closed with the policy-violation code, connect returns
\* no user id, and the handles, the forwarding tasks and the presence keys
\* stay as they were.
C19_RefusedConnectChangesNothing ==
    [][\A c \in WsUsers : \A k \in Tokens(c) :
          (Open(c, k) /\ Refused(k))
          => /\ op'[<<"ws", c>>].closed = PolicyViolation
             /\ op'[<<"ws", c>>].user = 0
             /\ connected' = connected
             /\ subscribe_tasks' = subscribe_tasks
             /\ subscribed' = subscribed
             /\ presence' = presence]_vars

\* the client of user 1 was refused while user 2 is connected and online
C19_Closed ==
    /\ op[<<"ws", 1>>].kind = "connect" /\ op[<<"ws", 1>>].closed = PolicyViolation
    /\ connected = {2} /\ subscribed = {2}
    /\ is_online(2) /\ ~is_online(1)

C29_CanonicalPair ==
    [][/\ \A s \in Sessions : \A c \in chats' \cup tx'[s].chats :
             c.user1_id < c.user2_id
       /\ \A s \in Sessions :
             (pc[s] = "idle" /\ pc'[s] = "built")
             => \A c \in chats :
                   {c.user1_id, c.user2_id} = {op'[s].user, op'[s].peer}
                   => /\ op'[s].chat = c.id
                      /\ tx'[s].chats = tx[s].chats
                      /\ nextChatId' = nextChatId]_vars

\* user 2 writes to user 1 in the chat that the send of user 1 to user 2
\* created
C29_SameChatBothWays ==
    /\ chats = {[id |-> 1, user1_id |-> 1, user2_id |-> 2]}
    /\ \E m \in messages : m.chat_id = 1 /\ m.sender_id = 1
    /\ pc[<<"ws", 2>>] = "built" /\ op[<<"ws", 2>>].peer = 1
    /\ op[<<"ws", 2>>].chat = 1 /\ nextChatId = 2

\* C25: get_messages and mark_as_read called for a chat id of which the caller
\* is not a participant (a chat of two other users, or no chat) end in the
\* not-found error, return no message, change no Message row and send no frame.
C25_OnlyMembersReadOrMark ==
    [][\A s \in Sessions :
          (/\ pc[s] = "idle" /\ pc'[s] # "idle"
           /\ op'[s].kind \in {"get", "read"}
           /\ ~\E ch \in chats \cup tx[s].chats :
                  /\ ch.id = op'[s].chat
                  /\ op'[s].user \in {ch.user1_id, ch.user2_id})
          => /\ pc'[s] = "e404"
             /\ op'[s].page = <<>> /\ op'[s].ids = {}
             /\ messages' = messages /\ tx' = tx
             /\ pushes' = pushes]_vars

\* user 2 asked for the messages of the chat of users 1 and 3, which holds a
\* message, and got the error
C25_ForeignChatRefused ==
    /\ pc[Pager] = "e404" /\ op[Pager].kind = "get"
    /\ \E ch \in chats : /\ ch.id = op[Pager].chat
                         /\ ch.user1_id = 1 /\ ch.user2_id = 3
                         /\ \E m \in messages : m.chat_id = ch.id

\* C27: every stored Message with a reply_to_id refers to a message of the
\* same chat that was created before it; never to itself, to a later message
\* or to a message of another chat.
C27_ReplyToEarlierOfSameChat ==
    \A m \in messages :
        m.reply_to_id # <<>>
        => \E n \in messages : /\ n.id = m.reply_to_id[1]
                                /\ n.chat_id = m.chat_id
                                /\ n.id < m.id /\ n.created_at < m.created_at

\* C28: send_message and mark_as_read are each one unit of work: when the
\* call returns, what it wrote is committed, and no rollback of a later call
\* on the same connection discards what an earlier call wrote.
C28_UnitOfWork ==
    [][\A s \in Sessions :
          /\ (pc[s] = "done" /\ pc'[s] = "idle") => tx'[s] = EmptyTx
          /\ (pc[s] = "built" /\ op[s].kind = "send")
             => \A u \in tx[s].upd : u \in tx'[s].upd \/ u \in messages']_vars

C24_FrameErrorsKeepConnection ==
    [][\A u \in WsUsers :
          (u \in connected /\ u \notin connected')
          => /\ pc[<<"ws", u>>] \notin {"e403", "e404"}
             /\ ~(pc[<<"ws", u>>] = "e500" /\ op[<<"ws", u>>].kind = "frame")]_vars

\* C26: get_chat_list answers with one entry for every chat of the caller,
\* whose last_message is the message of the chat created last (none for an
\* empty chat) and whose unread_count is the number of the chat's messages
\* written by the other participant that are not READ.
C26_ListReportsLastAndUnread ==
    [][\A s \in Sessions :
          (pc[s] = "idle" /\ op'[s].kind = "list")
          => /\ pc'[s] = "done"
             /\ \A c \in chats :
                   op'[s].user \in {c.user1_id, c.user2_id}
                   => \E i \in 1..Len(op'[s].page) :
                         LET e == op'[s].page[i]
                             rows == {m \in messages : m.chat_id = c.id}
                         IN  /\ e.id = c.id
                             /\ e.unread_count =
                                   Cardinality({m \in rows :
                                                  /\ m.sender_id # op'[s].user
                                                  /\ Rank(m.status) < Rank(READ)})
                             /\ IF rows = {} THEN e.last_message = <<>>
                                ELSE /\ Len(e.last_message) = 1
                                     /\ \A m \in rows :
                                           m.created_at <= e.last_message[1].created_at]_vars

\* C21: after disconnect(u) has run, u has no websocket and no task stored
\* under its id, no forwarding task at all and no presence key, and one more
\* disconnect(u) would change nothing.
C21_DisconnectIdempotent ==
    [][\A u \in WsUsers :
          (\E d \in Devices : Leave(u, d))
          => /\ u \notin connected' /\ device'[u] = 0
             /\ \A d \in Devices : sockets'[<<u, d>>].task = "none"
             /\ ~ \E e \in presence' : e.user = u
             /\ disconnect(Manager, u) = disconnect(disconnect(Manager, u), u)]_vars

\* C22: when none of the connections of a user is left in its read loop, no
\* forwarding task of that user is subscribed and the user has no presence key.
C22_NothingOutlivesTheConnections ==
    \A u \in WsUsers :
        (\A d \in Devices : ~sockets[<<u, d>>].loop)
        => /\ \A d \in Devices : sockets[<<u, d>>].task # "subscribed"
           /\ ~ \E e \in presence : e.user = u

\* C30: what a forwarding task has written to its websocket are payloads that
\* were published on the user's channel, in the order of their publishes and
\* each once at most; a publish on a channel that no task is subscribed to
\* reaches no task and no socket and leaves the stored messages as they are.
C30_ForwardedInPublishOrder ==
    [][/\ \A c \in Conns :
             LET log == sockets'[c].log
             IN  /\ \A i \in 1..Len(log) : log[i].n \in 1..published'[c[1]]
                 /\ \A i, j \in 1..Len(log) : i < j => log[i].n < log[j].n
       /\ \A u \in Users :
             (/\ published'[u] > published[u]
              /\ \A d \in Devices : sockets[<<u, d>>].task # "subscribed")
             => /\ sockets' = sockets
                /\ messages' = messages]_vars

\* a websocket of user 1 has got two published updates from its task, after an
\* earlier publish on ws:1 that no task was subscribed to
C30_TwoForwardedOneDropped ==
    \E d \in Devices :
        /\ Len(sockets[<<1, d>>].log) = 2
        /\ sockets[<<1, d>>].log[1].n > 1

\* C31: when redis cannot be reached, the presence probe of send_message gives
\* neither True nor False: the call ends with the error, the message is not
\* treated as sent to an offline user and nothing else changes.
C31_ProbeFailureIsAnError ==
    [][SendProbe(HttpSender, FALSE)
       => /\ probe(op[HttpSender].peer, FALSE) \notin {"True", "False"}
          /\ pc'[HttpSender] = "e500"
          /\ messages' = messages /\ pushes' = pushes]_vars

\* the probe of a send to user 2, who is online, has failed
C31_ProbeFailed ==
    /\ pc[HttpSender] = "e500" /\ op[HttpSender].sent # <<>>
    /\ is_online(2)

\* C32: the status and the timestamps of every stored message agree: read_at
\* is set exactly when the status is READ, delivered_at is set only when the
\* status is DELIVERED or READ, and a SENT message has neither.
C32_StatusMatchesTimestamps ==
    \A m \in messages :
        /\ (m.read_at # NoTime) <=> (m.status = READ)
        /\ (m.delivered_at # NoTime) => m.status \in {DELIVERED, READ}
        /\ (m.status = SENT) => (m.delivered_at = NoTime /\ m.read_at = NoTime)

\* C33: the status_update frames sent for one message do not go back: no
\* "delivered" is sent for a message for which a "read" was sent before.
C33_NoDeliveredAfterRead ==
    [][\A f \in pushes' \ pushes :
          (f.type = "status_update" /\ f.status = DELIVERED)
          => ~ \E g \in pushes : /\ g.type = "status_update"
                                 /\ g.to = f.to
                                 /\ g.message_id = f.message_id
                                 /\ g.status = READ]_vars

\* C34: while a connection of a user is in its read loop (and the ttl of the
\* presence key has not run out) the user is online and the websocket of that
\* connection is open, however many other connections of the user have ended.
C34_OnlineWhileAnyConnection ==
    \A u \in WsUsers : \A d \in Devices :
        sockets[<<u, d>>].loop => (is_online(u) /\ sockets[<<u, d>>].open)

\* C35: a payload published on the channel of a user who is online through a
\* registered connection with its websocket open is not lost: the forwarding
\* task of that connection has it, to be written to the websocket.
C35_OnlineMeansSubscribed ==
    [][\A u \in WsUsers :
          (/\ published'[u] > published[u]
           /\ is_online(u) /\ device[u] # 0
           /\ sockets[<<u, device[u]>>].loop /\ sockets[<<u, device[u]>>].open)
          => \A n \in (published[u] + 1)..published'[u] :
                \E i \in 1..Len(sockets'[<<u, device[u]>>].queue) :
                    sockets'[<<u, device[u]>>].queue[i].n = n]_vars

\* C36: a GET /chat/list of a user who has a chat with an accepted link is not
\* refused because the link of another of its chats is not accepted, and an
\* answer holds an entry for each chat of the user with an accepted link.
C36_ListSurvivesBrokenLink ==
    [][\A s \in Sessions :
          (/\ pc[s] = "idle" /\ op'[s].kind = "list"
           /\ \E c \in chats : /\ op'[s].user \in {c.user1_id, c.user2_id}
                                /\ Linked(c.user1_id, c.user2_id))
          => /\ pc'[s] # "e403"
             /\ pc'[s] = "done"
                => \A c \in chats :
                      (/\ op'[s].user \in {c.user1_id, c.user2_id}
                       /\ Linked(c.user1_id, c.user2_id))
                      => \E i \in 1..Len(op'[s].page) : op'[s].page[i].id = c.id]_vars

=============================================================================
